---- MODULE Spec2Model ----
(***************************************************************************)
(* Ups (src/main.rs): a registry of applications, each with a checker      *)
(* script, a snapshot value and a latest value.  One run of the process    *)
(* loads the data file, executes one command and saves the registry when   *)
(* the Guard is dropped.  Strings are sequences of one-character strings;  *)
(* "0xFF" stands for a byte that is not valid UTF-8.  Writes to the         *)
(* terminal are taken to succeed, so no thread panics.                     *)
(***************************************************************************)
EXTENDS Naturals, Sequences, FiniteSets, TLC

VARIABLES
    file,        \* the data file: [exists, data]
    apps,        \* Ups.apps: name -> App
    pc,          \* position of the main thread
    args,        \* the command line of the current run
    new_values,  \* update_latest_value: Vec of (name, handle or joined result)
    threads,     \* worker threads launched in this run: name -> thread
    outcome,     \* what main returns: "none" while running, "ok", "err"
    err,         \* the error main returns ("" when none)
    saves,       \* save attempts made in this run
    save_failed, \* Guard::drop reported a failing save
    procs,       \* checker processes started in this run
    obs,         \* what each checker of this run did: name -> outcome
    apps0,       \* the registry when the command started (after load)
    file0,       \* the data file when the run started
    saved,       \* the registry written by the last complete save
    prev,        \* the snapshot command, if any, whose run made that save
    result0,     \* outcome and error when the command ended, before the save
    runs,        \* runs started so far
    names        \* update_latest_value: the names still to be launched (Vec apps)

vars == <<file, apps, pc, args, new_values, threads, outcome, err, saves,
          save_failed, procs, obs, apps0, file0, saved, prev, result0, runs, names>>

\* ---------------------------------------------------------------- bounds
MaxRuns == 2

\* ---------------------------------------------------------------- strings
NONE == <<"N", "O", "N", "E">>

TAB == "\t"
NL == "\n"
SP == " "

\* char::is_whitespace, on the characters the model uses
IsWhitespace(c) == c \in {SP, TAB, NL, "\r"}

IsUtf8(bytes) == \A i \in 1..Len(bytes) : bytes[i] # "0xFF"

RECURSIVE TrimStart(_)
TrimStart(s) ==
    IF s # <<>> /\ IsWhitespace(Head(s)) THEN TrimStart(Tail(s)) ELSE s

RECURSIVE TrimEnd(_)
TrimEnd(s) ==
    IF s # <<>> /\ IsWhitespace(s[Len(s)])
    THEN TrimEnd(SubSeq(s, 1, Len(s) - 1)) ELSE s

\* str::trim
Trim(s) == TrimEnd(TrimStart(s))

\* str::split_whitespace: the maximal runs of non-whitespace characters
RECURSIVE SplitWs(_, _, _)
SplitWs(s, cur, acc) ==
    IF s = <<>> THEN (IF cur = <<>> THEN acc ELSE Append(acc, cur))
    ELSE IF IsWhitespace(Head(s))
         THEN SplitWs(Tail(s), <<>>, IF cur = <<>> THEN acc ELSE Append(acc, cur))
         ELSE SplitWs(Tail(s), Append(cur, Head(s)), acc)

SplitWhitespace(s) == SplitWs(s, <<>>, <<>>)

\* str::lines: split at "\n", a final line ending is optional, a "\r" before
\* the "\n" belongs to the line ending
StripCr(l) == IF l # <<>> /\ l[Len(l)] = "\r" THEN SubSeq(l, 1, Len(l) - 1) ELSE l

RECURSIVE LinesOf(_, _, _)
LinesOf(s, cur, acc) ==
    IF s = <<>> THEN (IF cur = <<>> THEN acc ELSE Append(acc, cur))
    ELSE IF Head(s) = NL
         THEN LinesOf(Tail(s), <<>>, Append(acc, StripCr(cur)))
         ELSE LinesOf(Tail(s), Append(cur, Head(s)), acc)

Lines(s) == LinesOf(s, <<>>, <<>>)

RECURSIVE Concat(_)
Concat(ss) == IF ss = <<>> THEN <<>> ELSE Head(ss) \o Concat(Tail(ss))

\* all orders in which a HashMap may iterate over the keys in S
Orders(S) ==
    {o \in [1..Cardinality(S) -> S] : \A i, j \in 1..Cardinality(S) : o[i] = o[j] => i = j}

\* ---------------------------------------------------------------- values
Ok(v) == [ok |-> TRUE, val |-> v, err |-> ""]
Err(e) == [ok |-> FALSE, val |-> <<>>, err |-> e]

EmptyMap == [n \in {} |-> 0]

App(path, latest, snapshot) ==
    [script_path |-> path, latest_value |-> latest, snapshot_value |-> snapshot]

\* names and script paths a command line may give
NameA == <<"a">>
NameB == <<"b">>
ArgNames == {NameA, NameB}

PathS == <<"/", "s">>
PathT == <<"/", "t">>
ArgPaths == {PathS, <<"s">>, <<"l">>, <<"x">>}

\* Path::canonicalize in a file system where /s and /t are files, the
\* working directory is /, l is a symbolic link to /t and x does not exist
Canonicalize(p) ==
    CASE p = PathS -> Ok(PathS)
      [] p = PathT -> Ok(PathT)
      [] p = <<"s">> -> Ok(PathS)
      [] p = <<"l">> -> Ok(PathT)
      [] OTHER -> Err("No such file or directory")

Commands ==
    {[cmd |-> "refresh", name |-> <<>>, path |-> <<>>],
     [cmd |-> "usage", name |-> <<>>, path |-> <<>>]}
    \cup {[cmd |-> "insert", name |-> n, path |-> p] : n \in ArgNames, p \in ArgPaths}
    \cup {[cmd |-> c, name |-> n, path |-> <<>>] :
             c \in {"snapshot", "get", "show"}, n \in ArgNames}

\* what one execution of a checker script can do: Command::output fails, or
\* the process runs and ends with an exit status and bytes on its stdout
Checker(spawned, success, stdout) ==
    [spawned |-> spawned, success |-> success, stdout |-> stdout]

Outcomes ==
    {Checker(FALSE, FALSE, <<>>),
     Checker(TRUE, FALSE, <<"3", ".", "0", NL>>),
     Checker(TRUE, FALSE, <<"0xFF">>),
     Checker(TRUE, TRUE, <<SP, NL>>),
     Checker(TRUE, TRUE, <<SP, "2", ".", "0", NL>>),
     Checker(TRUE, TRUE, <<"1", SP, "b", NL>>),
     Checker(TRUE, TRUE, <<"N", "O", "N", "E", NL>>)}

\* RunChecker as it would be without the trim and the test for emptiness
RunCheckerUntrimmed(o) ==
    IF ~o.spawned THEN Err("spawn")
    ELSE IF ~IsUtf8(o.stdout) THEN Err("utf8")
    ELSE IF o.success THEN Ok(o.stdout) ELSE Ok(NONE)

\* the closure run by the worker thread of latest_value
RunChecker(o) ==
    IF ~o.spawned THEN Err("spawn")
    ELSE IF ~IsUtf8(o.stdout) THEN Err("utf8")
    ELSE LET value == Trim(o.stdout)
         IN  IF o.success /\ value # <<>> THEN Ok(value) ELSE Ok(NONE)

\* ---------------------------------------------------------------- data file
SaveLine(name, app) ==
    name \o <<TAB>> \o app.snapshot_value \o <<TAB>> \o app.latest_value
         \o <<TAB>> \o app.script_path \o <<TAB>> \o <<NL>>

\* the first k lines save writes when the map iterates in the order o
FileData(registry, o, k) ==
    Concat([i \in 1..k |-> SaveLine(o[i], registry[o[i]])])

\* what a save leaves in the file: all of it when every write succeeds, fewer
\* characters when a write fails, since each piece of a line is written on
\* its own to the unbuffered file and a write can be short
Written(data) == {SubSeq(data, 1, k) : k \in 0..Len(data)}

RECURSIVE ParseLines(_, _)
ParseLines(ls, map) ==
    IF ls = <<>> THEN [ok |-> TRUE, apps |-> map]
    ELSE LET line == SplitWhitespace(Head(ls))
         IN  IF Len(line) < 4 THEN [ok |-> FALSE, apps |-> EmptyMap]
             ELSE ParseLines(Tail(ls),
                             (line[1] :> App(line[4], line[3], line[2])) @@ map)

\* the loop of load over data.lines()
ParseData(data) == ParseLines(Lines(data), EmptyMap)

Missing == [exists |-> FALSE, data |-> <<>>]

\* data files a run may find: none, one written by two inserts, and one
\* whose second line has two fields
InsertedFile ==
    [exists |-> TRUE,
     data |-> SaveLine(NameA, App(PathS, NONE, NONE))
              \o SaveLine(NameB, App(PathT, NONE, NONE))]
MalformedFile ==
    [exists |-> TRUE,
     data |-> SaveLine(NameA, App(PathS, NONE, NONE)) \o <<"b", TAB, "N", NL>>]
InitFiles == {Missing, InsertedFile, MalformedFile}

NoSaved == [valid |-> FALSE, apps |-> EmptyMap]
NoPrev == [snapshot |-> FALSE, name |-> <<>>, o |-> Checker(FALSE, FALSE, <<>>)]

\* ---------------------------------------------------------------- main
Init ==
    /\ file \in InitFiles
    /\ apps = EmptyMap
    /\ pc = "idle"
    /\ args = [cmd |-> "usage", name |-> <<>>, path |-> <<>>]
    /\ new_values = <<>>
    /\ names = <<>>
    /\ threads = EmptyMap
    /\ outcome = "none"
    /\ err = ""
    /\ saves = 0
    /\ save_failed = FALSE
    /\ procs = 0
    /\ obs = EmptyMap
    /\ apps0 = EmptyMap
    /\ file0 = file
    /\ saved = NoSaved
    /\ prev = NoPrev
    /\ result0 = <<"none", "">>
    /\ runs = 0

\* main, lines 15-17: a new process with an empty Ups and the Guard on it
StartRun(a) ==
    /\ pc \in {"idle", "exit"}
    /\ runs < MaxRuns
    /\ runs' = runs + 1
    /\ args' = a
    /\ apps' = EmptyMap
    /\ pc' = "load"
    /\ new_values' = <<>>
    /\ names' = <<>>
    /\ threads' = EmptyMap
    /\ outcome' = "none"
    /\ err' = ""
    /\ saves' = 0
    /\ save_failed' = FALSE
    /\ procs' = 0
    /\ obs' = EmptyMap
    /\ apps0' = EmptyMap
    /\ file0' = file
    /\ result0' = <<"none", "">>
    /\ UNCHANGED <<file, saved, prev>>

\* main returns: the command's result is fixed and the Guard is dropped next
Return(o, e) ==
    /\ outcome' = o
    /\ err' = e
    /\ result0' = <<o, e>>
    /\ pc' = "drop"

PARSE_ERROR == "Error while parsing data file"

\* the entries of the lines before the first one with fewer than four fields
RECURSIVE ParsedPrefix(_, _)
ParsedPrefix(ls, map) ==
    IF ls = <<>> \/ Len(SplitWhitespace(Head(ls))) < 4 THEN map
    ELSE LET line == SplitWhitespace(Head(ls))
         IN  ParsedPrefix(Tail(ls),
                          (line[1] :> App(line[4], line[3], line[2])) @@ map)

\* Load as it would be if each line were inserted into self.apps directly
LoadInstallsPrefix ==
    /\ pc = "load"
    /\ \/ /\ Return("err", "data file io")
          /\ UNCHANGED <<apps, apps0>>
       \/ /\ ~file.exists
          /\ pc' = "dispatch"
          /\ apps0' = apps
          /\ UNCHANGED <<apps, outcome, err, result0>>
       \/ /\ file.exists
          /\ LET parsed == ParseData(file.data)
             IN  IF parsed.ok
                 THEN /\ apps' = parsed.apps
                      /\ apps0' = parsed.apps
                      /\ pc' = "dispatch"
                      /\ UNCHANGED <<outcome, err, result0>>
                 ELSE /\ Return("err", PARSE_ERROR)
                      /\ apps' = ParsedPrefix(Lines(file.data), EmptyMap)
                      /\ UNCHANGED apps0
    /\ UNCHANGED <<file, args, new_values, names, threads, saves, save_failed,
                   procs, obs, file0, saved, prev, runs>>

\* Ups::load, called by main at line 19
Load ==
    /\ pc = "load"
    /\ \/ \* data_path() or read_to_string fails
          /\ Return("err", "data file io")
          /\ UNCHANGED <<apps, apps0>>
       \/ /\ ~file.exists
          /\ pc' = "dispatch"
          /\ apps0' = apps
          /\ UNCHANGED <<apps, outcome, err, result0>>
       \/ /\ file.exists
          /\ LET parsed == ParseData(file.data)
             IN  IF parsed.ok
                 THEN /\ apps' = parsed.apps
                      /\ apps0' = parsed.apps
                      /\ pc' = "dispatch"
                      /\ UNCHANGED <<outcome, err, result0>>
                 ELSE /\ Return("err", PARSE_ERROR)
                      /\ UNCHANGED <<apps, apps0>>
    /\ UNCHANGED <<file, args, new_values, names, threads, saves, save_failed,
                   procs, obs, file0, saved, prev, runs>>

\* ---------------------------------------------------------------- threads
\* std::thread::spawn in latest_value: the thread owns copies of the script path.
\* A thread is "running" until it calls Command::output, "waiting" while its
\* checker process runs, "exited" once that process has ended and "done" once
\* the closure has returned
Spawned(name) ==
    (name :> [script_path |-> apps[name].script_path, state |-> "running",
              res |-> Err("")]) @@ threads

\* the files of the file system of Canonicalize that a process can be made of
Executable(path) == path \in {PathS, PathT}

\* the thread prints its message and calls Command::output, line 143: the
\* checker process is started, or the call fails and the closure returns
WorkerSpawn(n) ==
    /\ n \in DOMAIN threads
    /\ threads[n].state = "running"
    /\ \/ /\ Executable(threads[n].script_path)
          /\ threads' = [threads EXCEPT ![n].state = "waiting"]
          /\ procs' = procs + 1
          /\ UNCHANGED obs
       \/ /\ threads' = [threads EXCEPT
                            ![n].state = "done",
                            ![n].res = RunChecker(Checker(FALSE, FALSE, <<>>))]
          /\ obs' = (n :> Checker(FALSE, FALSE, <<>>)) @@ obs
          /\ UNCHANGED procs
    /\ UNCHANGED <<file, apps, pc, args, new_values, names, outcome, err, saves,
                   save_failed, apps0, file0, saved, prev, result0, runs>>

\* the checker process ends while the thread waits in Command::output
CheckerExit(n, o) ==
    /\ n \in DOMAIN threads
    /\ threads[n].state = "waiting"
    /\ o.spawned
    /\ threads' = [threads EXCEPT ![n].state = "exited"]
    /\ obs' = (n :> o) @@ obs
    /\ UNCHANGED <<file, apps, pc, args, new_values, names, outcome, err, saves,
                   save_failed, procs, apps0, file0, saved, prev, result0, runs>>

\* Command::output returns, lines 144-151: the output is decoded and trimmed
\* and the closure returns
WorkerReturn(n) ==
    /\ n \in DOMAIN threads
    /\ threads[n].state = "exited"
    /\ threads' = [threads EXCEPT ![n].state = "done", ![n].res = RunChecker(obs[n])]
    /\ UNCHANGED <<file, apps, pc, args, new_values, names, outcome, err, saves,
                   save_failed, procs, obs, apps0, file0, saved, prev, result0, runs>>

\* JoinHandle::join can return once the thread has ended
Joinable(n) == threads[n].state = "done"

\* ---------------------------------------------------------------- insert
\* Insert as it would be if an entry that exists kept its values
InsertKeepsValues ==
    /\ pc = "dispatch"
    /\ args.cmd = "insert"
    /\ LET path == Canonicalize(args.path)
       IN  IF path.ok
           THEN /\ apps' = IF args.name \in DOMAIN apps
                           THEN [apps EXCEPT ![args.name].script_path = path.val]
                           ELSE (args.name :> App(path.val, NONE, NONE)) @@ apps
                /\ Return("ok", "")
           ELSE /\ Return("err", path.err)
                /\ UNCHANGED apps
    /\ UNCHANGED <<file, args, new_values, names, threads, saves, save_failed,
                   procs, obs, apps0, file0, saved, prev, runs>>

\* Insert as it would be if the entry were stored before the path is resolved
InsertBeforeResolve ==
    /\ pc = "dispatch"
    /\ args.cmd = "insert"
    /\ LET path == Canonicalize(args.path)
       IN  IF path.ok
           THEN /\ apps' = (args.name :> App(path.val, NONE, NONE)) @@ apps
                /\ Return("ok", "")
           ELSE /\ apps' = (args.name :> App(args.path, NONE, NONE)) @@ apps
                /\ Return("err", path.err)
    /\ UNCHANGED <<file, args, new_values, names, threads, saves, save_failed,
                   procs, obs, apps0, file0, saved, prev, runs>>

Insert ==
    /\ pc = "dispatch"
    /\ args.cmd = "insert"
    /\ LET path == Canonicalize(args.path)
       IN  IF path.ok
           THEN /\ apps' = (args.name :> App(path.val, NONE, NONE)) @@ apps
                /\ Return("ok", "")
           ELSE /\ Return("err", path.err)
                /\ UNCHANGED apps
    /\ UNCHANGED <<file, args, new_values, names, threads, saves, save_failed,
                   procs, obs, apps0, file0, saved, prev, runs>>

\* ---------------------------------------------------------------- snapshot
\* SnapshotSpawn as it would be if a name that is not registered were skipped
SnapshotSpawnSkips ==
    /\ pc = "dispatch"
    /\ args.cmd = "snapshot"
    /\ IF args.name \in DOMAIN apps
       THEN /\ threads' = Spawned(args.name)
            /\ pc' = "snapshot_join"
            /\ UNCHANGED <<outcome, err, result0>>
       ELSE /\ Return("ok", "")
            /\ UNCHANGED threads
    /\ UNCHANGED <<file, apps, args, new_values, names, saves, save_failed,
                   procs, obs, apps0, file0, saved, prev, runs>>

\* snapshot, line 91 up to the spawn inside latest_value
SnapshotSpawn ==
    /\ pc = "dispatch"
    /\ args.cmd = "snapshot"
    /\ IF args.name \in DOMAIN apps
       THEN /\ threads' = Spawned(args.name)
            /\ pc' = "snapshot_join"
            /\ UNCHANGED <<outcome, err, result0>>
       ELSE /\ Return("err", "not registered")
            /\ UNCHANGED threads
    /\ UNCHANGED <<file, apps, args, new_values, names, saves, save_failed,
                   procs, obs, apps0, file0, saved, prev, runs>>

\* SnapshotJoin as it would be if the old latest value became the snapshot
SnapshotJoinKeepsOldLatest ==
    /\ pc = "snapshot_join"
    /\ Joinable(args.name)
    /\ LET v == threads[args.name].res
       IN  IF v.ok
           THEN /\ apps' = [apps EXCEPT
                              ![args.name].snapshot_value = apps[args.name].latest_value,
                              ![args.name].latest_value = v.val]
                /\ Return("ok", "")
           ELSE /\ Return("err", v.err)
                /\ UNCHANGED apps
    /\ UNCHANGED <<file, args, new_values, names, threads, saves, save_failed,
                   procs, obs, apps0, file0, saved, prev, runs>>

\* snapshot, tawait()? at line 91 and lines 92-95
SnapshotJoin ==
    /\ pc = "snapshot_join"
    /\ Joinable(args.name)
    /\ LET v == threads[args.name].res
       IN  IF v.ok
           THEN /\ apps' = [apps EXCEPT ![args.name].latest_value = v.val,
                                        ![args.name].snapshot_value = v.val]
                /\ Return("ok", "")
           ELSE /\ Return("err", v.err)
                /\ UNCHANGED apps
    /\ UNCHANGED <<file, args, new_values, names, threads, saves, save_failed,
                   procs, obs, apps0, file0, saved, prev, runs>>

\* ---------------------------------------------------------------- get
GetSpawn ==
    /\ pc = "dispatch"
    /\ args.cmd = "get"
    /\ IF args.name \in DOMAIN apps
       THEN /\ threads' = Spawned(args.name)
            /\ pc' = "get_join"
            /\ UNCHANGED <<outcome, err, result0>>
       ELSE /\ Return("err", "not registered")
            /\ UNCHANGED threads
    /\ UNCHANGED <<file, apps, args, new_values, names, saves, save_failed,
                   procs, obs, apps0, file0, saved, prev, runs>>

\* GetJoin as it would be if the value it prints were stored as well
GetJoinStores ==
    /\ pc = "get_join"
    /\ Joinable(args.name)
    /\ LET v == threads[args.name].res
       IN  IF v.ok
           THEN /\ apps' = [apps EXCEPT ![args.name].latest_value = v.val]
                /\ Return("ok", "")
           ELSE /\ Return("err", v.err)
                /\ UNCHANGED apps
    /\ UNCHANGED <<file, args, new_values, names, threads, saves,
                   save_failed, procs, obs, apps0, file0, saved, prev, runs>>

\* main, line 34: the joined value is printed
GetJoin ==
    /\ pc = "get_join"
    /\ Joinable(args.name)
    /\ LET v == threads[args.name].res
       IN  IF v.ok THEN Return("ok", "") ELSE Return("err", v.err)
    /\ UNCHANGED <<file, apps, args, new_values, names, threads, saves,
                   save_failed, procs, obs, apps0, file0, saved, prev, runs>>

\* ---------------------------------------------------------------- show, usage
\* show_script: the script is looked up and read, which can fail
ShowScript ==
    /\ pc = "dispatch"
    /\ args.cmd = "show"
    /\ IF args.name \in DOMAIN apps
       THEN Return("ok", "") \/ Return("err", "read script")
       ELSE Return("err", "Unknown script")
    /\ UNCHANGED <<file, apps, args, new_values, names, threads, saves,
                   save_failed, procs, obs, apps0, file0, saved, prev, runs>>

Usage ==
    /\ pc = "dispatch"
    /\ args.cmd = "usage"
    /\ Return("ok", "")
    /\ UNCHANGED <<file, apps, args, new_values, names, threads, saves,
                   save_failed, procs, obs, apps0, file0, saved, prev, runs>>

\* ---------------------------------------------------------------- refresh
Handle(n) == [n |-> n, joined |-> FALSE, v |-> Err("")]

\* update_latest_value, line 156: the names in the map's iteration order
UpdateCollect ==
    /\ pc = "dispatch"
    /\ args.cmd = "refresh"
    /\ \E o \in Orders(DOMAIN apps) :
          /\ names' = o
          /\ pc' = IF o = <<>> THEN "print" ELSE "update_spawn"
    /\ UNCHANGED <<file, apps, args, new_values, threads, outcome, err, saves,
                   save_failed, procs, obs, apps0, file0, saved, prev, result0, runs>>

\* UpdateSpawn as it would be if each handle were joined before the next launch
UpdateSpawnJoinsFirst ==
    /\ pc = "update_spawn"
    /\ \A i \in 1..Len(new_values) : Joinable(new_values[i].n)
    /\ LET name == Head(names)
           joined == [i \in 1..Len(new_values) |->
                        [n |-> new_values[i].n, joined |-> TRUE,
                         v |-> threads[new_values[i].n].res]]
       IN  /\ threads' = Spawned(name)
           /\ new_values' = Append(joined, Handle(name))
    /\ names' = Tail(names)
    /\ pc' = IF Tail(names) = <<>> THEN "update_join" ELSE "update_spawn"
    /\ UNCHANGED <<file, apps, args, outcome, err, saves, save_failed, procs,
                   obs, apps0, file0, saved, prev, result0, runs>>

\* one iteration of the loop at lines 158-161
UpdateSpawn ==
    /\ pc = "update_spawn"
    /\ LET name == Head(names)
       IN  /\ threads' = Spawned(name)
           /\ new_values' = Append(new_values, Handle(name))
    /\ names' = Tail(names)
    /\ pc' = IF Tail(names) = <<>> THEN "update_join" ELSE "update_spawn"
    /\ UNCHANGED <<file, apps, args, outcome, err, saves, save_failed, procs,
                   obs, apps0, file0, saved, prev, result0, runs>>

Unjoined == {i \in 1..Len(new_values) : ~new_values[i].joined}

NextJoin == CHOOSE i \in Unjoined : \A j \in Unjoined : i <= j

\* UpdateJoin as it would be if the first failed result were returned at once
UpdateJoinReturnsEarly ==
    /\ pc = "update_join"
    /\ LET i == NextJoin
           n == new_values[i].n
       IN  /\ Joinable(n)
           /\ IF threads[n].res.ok
              THEN /\ new_values' = [new_values EXCEPT ![i].joined = TRUE,
                                                       ![i].v = threads[n].res]
                   /\ pc' = IF i = Len(new_values)
                            THEN "update_write" ELSE "update_join"
                   /\ UNCHANGED <<outcome, err, result0>>
              ELSE /\ Return("err", threads[n].res.err)
                   /\ UNCHANGED new_values
    /\ UNCHANGED <<file, apps, args, names, threads, saves, save_failed, procs,
                   obs, apps0, file0, saved, prev, runs>>

\* UpdateJoin as it would be if each value were stored as soon as it is joined
UpdateJoinWrites ==
    /\ pc = "update_join"
    /\ LET i == NextJoin
           n == new_values[i].n
       IN  /\ Joinable(n)
           /\ new_values' = [new_values EXCEPT ![i].joined = TRUE,
                                               ![i].v = threads[n].res]
           /\ apps' = IF threads[n].res.ok
                      THEN [apps EXCEPT ![n].latest_value = threads[n].res.val]
                      ELSE apps
           /\ pc' = IF i = Len(new_values) THEN "update_write" ELSE "update_join"
    /\ UNCHANGED <<file, args, names, threads, outcome, err, saves,
                   save_failed, procs, obs, apps0, file0, saved, prev, result0, runs>>

\* UpdateJoin as it would be if it waited until the thread has a value
UpdateJoinWaitsForValue ==
    /\ pc = "update_join"
    /\ LET i == NextJoin
           n == new_values[i].n
       IN  /\ Joinable(n)
           /\ threads[n].res.ok
           /\ new_values' = [new_values EXCEPT ![i].joined = TRUE,
                                               ![i].v = threads[n].res]
           /\ pc' = IF i = Len(new_values) THEN "update_write" ELSE "update_join"
    /\ UNCHANGED <<file, apps, args, names, threads, outcome, err, saves,
                   save_failed, procs, obs, apps0, file0, saved, prev, result0, runs>>

\* one step of the map at lines 162-165: the next handle is joined
UpdateJoin ==
    /\ pc = "update_join"
    /\ LET i == NextJoin
           n == new_values[i].n
       IN  /\ Joinable(n)
           /\ new_values' = [new_values EXCEPT ![i].joined = TRUE,
                                               ![i].v = threads[n].res]
           /\ pc' = IF i = Len(new_values) THEN "update_write" ELSE "update_join"
    /\ UNCHANGED <<file, apps, args, names, threads, outcome, err, saves,
                   save_failed, procs, obs, apps0, file0, saved, prev, result0, runs>>

\* UpdateWrite as it would be if the new value were stored in both fields
UpdateWriteSetsSnapshot ==
    /\ pc = "update_write"
    /\ LET n == Head(new_values).n
           v == Head(new_values).v
       IN  IF v.ok
           THEN /\ apps' = [apps EXCEPT ![n].latest_value = v.val,
                                        ![n].snapshot_value = v.val]
                /\ new_values' = Tail(new_values)
                /\ pc' = IF Tail(new_values) = <<>> THEN "print" ELSE "update_write"
                /\ UNCHANGED <<outcome, err, result0>>
           ELSE /\ Return("err", v.err)
                /\ UNCHANGED <<apps, new_values>>
    /\ UNCHANGED <<file, args, names, threads, saves, save_failed, procs, obs,
                   apps0, file0, saved, prev, runs>>

\* one iteration of the loop at lines 166-168, and line 169 after the last
UpdateWrite ==
    /\ pc = "update_write"
    /\ LET n == Head(new_values).n
           v == Head(new_values).v
       IN  IF v.ok
           THEN /\ apps' = [apps EXCEPT ![n].latest_value = v.val]
                /\ new_values' = Tail(new_values)
                /\ pc' = IF Tail(new_values) = <<>> THEN "print" ELSE "update_write"
                /\ UNCHANGED <<outcome, err, result0>>
           ELSE /\ Return("err", v.err)
                /\ UNCHANGED <<apps, new_values>>
    /\ UNCHANGED <<file, args, names, threads, saves, save_failed, procs, obs,
                   apps0, file0, saved, prev, runs>>

\* main, line 30: the table is printed and main returns Ok
PrintTable ==
    /\ pc = "print"
    /\ Return("ok", "")
    /\ UNCHANGED <<file, apps, args, new_values, names, threads, saves,
                   save_failed, procs, obs, apps0, file0, saved, prev, runs>>

\* ---------------------------------------------------------------- save
\* the snapshot command of this run, with what its checker did
Snapshotted ==
    IF args.cmd = "snapshot" /\ args.name \in DOMAIN obs
    THEN [snapshot |-> TRUE, name |-> args.name, o |-> obs[args.name]]
    ELSE NoPrev

\* Drop as it would be if a failing save became the result of the run
DropMasksResult ==
    /\ pc = "drop"
    /\ saves' = saves + 1
    /\ pc' = "exit"
    /\ \/ /\ save_failed' = TRUE
          /\ outcome' = "err"
          /\ err' = "save"
          /\ prev' = NoPrev
          /\ UNCHANGED <<file, saved>>
       \/ \E o \in Orders(DOMAIN apps) :
             \E data \in Written(FileData(apps, o, Len(o))) :
                /\ file' = [exists |-> TRUE, data |-> data]
                /\ IF data = FileData(apps, o, Len(o))
                   THEN /\ saved' = [valid |-> TRUE, apps |-> apps]
                        /\ prev' = Snapshotted
                        /\ save_failed' = FALSE
                        /\ UNCHANGED <<outcome, err>>
                   ELSE /\ saved' = NoSaved
                        /\ prev' = NoPrev
                        /\ save_failed' = TRUE
                        /\ outcome' = "err"
                        /\ err' = "save"
    /\ UNCHANGED <<apps, args, new_values, names, threads, procs,
                   obs, apps0, file0, result0, runs>>

\* Ups::save under Guard::drop: File::create truncates, then one line per app
Drop ==
    /\ pc = "drop"
    /\ saves' = saves + 1
    /\ pc' = "exit"
    /\ \/ \* data_path() or File::create fails
          /\ save_failed' = TRUE
          /\ prev' = NoPrev
          /\ UNCHANGED <<file, saved>>
       \/ \E o \in Orders(DOMAIN apps) :
             \E data \in Written(FileData(apps, o, Len(o))) :
                /\ file' = [exists |-> TRUE, data |-> data]
                /\ IF data = FileData(apps, o, Len(o))
                   THEN /\ saved' = [valid |-> TRUE, apps |-> apps]
                        /\ prev' = Snapshotted
                        /\ save_failed' = FALSE
                   ELSE \* a write of writeln fails
                        /\ saved' = NoSaved
                        /\ prev' = NoPrev
                        /\ save_failed' = TRUE
    /\ UNCHANGED <<apps, args, new_values, names, threads, outcome, err, procs,
                   obs, apps0, file0, result0, runs>>

Next ==
    \/ \E a \in Commands : StartRun(a)
    \/ Load
    \/ Insert
    \/ SnapshotSpawn
    \/ SnapshotJoin
    \/ GetSpawn
    \/ GetJoin
    \/ ShowScript
    \/ Usage
    \/ UpdateCollect
    \/ UpdateSpawn
    \/ UpdateJoin
    \/ UpdateWrite
    \/ PrintTable
    \/ Drop
    \/ \E n \in DOMAIN threads : WorkerSpawn(n)
    \/ \E n \in DOMAIN threads, o \in Outcomes : CheckerExit(n, o)
    \/ \E n \in DOMAIN threads : WorkerReturn(n)

Spec == Init /\ [][Next]_vars

\* the steps of the main thread of a run
MainStep ==
    \/ Load
    \/ Insert
    \/ SnapshotSpawn
    \/ SnapshotJoin
    \/ GetSpawn
    \/ GetJoin
    \/ ShowScript
    \/ Usage
    \/ UpdateCollect
    \/ UpdateSpawn
    \/ UpdateJoin
    \/ UpdateWrite
    \/ PrintTable
    \/ Drop

\* the steps of the worker threads and of their checker processes
WorkerStep ==
    \/ \E n \in DOMAIN threads : WorkerSpawn(n)
    \/ \E n \in DOMAIN threads, o \in Outcomes : CheckerExit(n, o)
    \/ \E n \in DOMAIN threads : WorkerReturn(n)

\* the main thread of a started run keeps running, and every checker ends
FairSpec == Spec /\ WF_vars(MainStep) /\ WF_vars(WorkerStep)

\* ---------------------------------------------------------------- properties
LoadErrors == {"data file io", PARSE_ERROR}

\* the command of this run was executed and main has its result
CommandDone == pc \in {"drop", "exit"} /\ err \notin LoadErrors

\* update_latest_value has returned to main
RefreshReturned ==
    /\ args.cmd = "refresh"
    /\ \/ pc = "print"
       \/ CommandDone

\* what the specification takes a check to have observed
Observed(o) ==
    IF o.spawned /\ o.success /\ IsUtf8(o.stdout) /\ Trim(o.stdout) # <<>>
    THEN Trim(o.stdout) ELSE NONE

\* C1: after a full refresh in which every checker was spawned, an app whose
\* checker exited non-zero or printed only whitespace has latest_value NONE
\* and an app whose checker exited zero with trimmed output v has v
FailureIsolation ==
    (RefreshReturned /\ DOMAIN obs = DOMAIN apps
                     /\ \A n \in DOMAIN obs : obs[n].spawned)
    => \A n \in DOMAIN apps : apps[n].latest_value = Observed(obs[n])

\* C2: a checker that cannot be spawned gives its app NONE, the refresh
\* returns no error and every other app gets its own observed value
SpawnFailureIsCoerced ==
    (RefreshReturned /\ CommandDone /\ DOMAIN obs = DOMAIN apps
                     /\ (\E n \in DOMAIN obs : ~obs[n].spawned)
                     /\ (\A m \in DOMAIN obs : obs[m].spawned => RunChecker(obs[m]).ok))
    => /\ outcome = "ok"
       /\ \A n \in DOMAIN apps : apps[n].latest_value = Observed(obs[n])

\* C3: once update_latest_value has returned, with Ok or with an error, no
\* worker it launched is still running
JoinBarrier ==
    RefreshReturned => \A n \in DOMAIN threads : threads[n].state = "done"

JoinBarrierWitness ==
    /\ args.cmd = "refresh"
    /\ pc = "drop"
    /\ outcome = "err"
    /\ Cardinality(DOMAIN threads) = 2
    /\ \A n \in DOMAIN threads : threads[n].state = "done"

\* C4: during a full refresh the registry still is the loaded one while any
\* worker is running, and a step of a worker leaves the registry alone
NoWriteWhileRunning ==
    /\ [](args.cmd = "refresh"
            /\ (\/ pc \in {"update_spawn", "update_join"}
                \/ \E n \in DOMAIN threads : threads[n].state = "running")
          => apps = apps0)
    /\ [][(runs' = runs /\ (procs' # procs \/ obs' # obs
                              \/ \E n \in DOMAIN threads :
                                    /\ n \in DOMAIN threads'
                                    /\ threads'[n] # threads[n]))
           => apps' = apps]_vars

NoWriteWhileRunningWitness ==
    /\ args.cmd = "refresh"
    /\ pc = "update_write"
    /\ Cardinality(DOMAIN threads) = 2
    /\ apps # apps0

\* C5: a run ends with exactly one save attempt, made after the result of the
\* run is fixed, and the save leaves that result as it was
OneSaveAfterResult ==
    /\ pc = "exit" => saves = 1 /\ outcome # "none" /\ <<outcome, err>> = result0
    /\ pc # "exit" => saves = 0
    /\ save_failed => pc = "exit"

OneSaveAfterResultWitness ==
    /\ pc = "exit"
    /\ save_failed
    /\ outcome = "ok"
    /\ args.cmd = "snapshot"

\* C6: snapshot of a registered name runs its checker once and stores the
\* observed value, NONE for a failed check, as latest and snapshot value of
\* that app; the other apps keep their fields
SnapshotStoresObserved ==
    (args.cmd = "snapshot" /\ CommandDone /\ args.name \in DOMAIN apps0)
    => /\ DOMAIN obs = {args.name}
       /\ apps = [apps0 EXCEPT
                    ![args.name].latest_value = Observed(obs[args.name]),
                    ![args.name].snapshot_value = Observed(obs[args.name])]

\* C7: insert with a path that resolves leaves one entry for the name, with
\* the canonical path and both values NONE, and the other entries as loaded
InsertResets ==
    (args.cmd = "insert" /\ CommandDone /\ Canonicalize(args.path).ok)
    => /\ outcome = "ok"
       /\ DOMAIN apps = DOMAIN apps0 \cup {args.name}
       /\ apps[args.name].script_path =
              (IF args.path \in {PathS, <<"s">>} THEN PathS ELSE PathT)
       /\ apps[args.name].latest_value = NONE
       /\ apps[args.name].snapshot_value = NONE
       /\ \A n \in DOMAIN apps0 : n # args.name => apps[n] = apps0[n]

InsertResetsWitness ==
    /\ args.cmd = "insert"
    /\ pc = "drop"
    /\ outcome = "ok"
    /\ args.path = <<"l">>
    /\ args.name \in DOMAIN apps0
    /\ apps0[args.name].snapshot_value # NONE
    /\ apps0[args.name].script_path = PathS
    /\ Cardinality(DOMAIN apps0) = 2

\* C8: insert with a path that does not resolve returns an error and leaves
\* the registry as it was loaded
InsertFailureKeepsRegistry ==
    (args.cmd = "insert" /\ CommandDone /\ args.path = <<"x">>)
    => /\ outcome = "err"
       /\ apps = apps0

InsertFailureKeepsRegistryWitness ==
    /\ args.cmd = "insert"
    /\ pc = "drop"
    /\ args.path = <<"x">>
    /\ args.name \in DOMAIN apps0
    /\ apps0[args.name].latest_value # NONE

\* C9: snapshot and get of a name that is not registered return the lookup
\* error, launch no thread and no checker and leave the registry as loaded
UnregisteredIsRejected ==
    (args.cmd \in {"snapshot", "get"} /\ args.name \notin DOMAIN apps0
        /\ pc \notin {"load", "dispatch"} /\ err \notin LoadErrors)
    => /\ pc \in {"drop", "exit"}
       /\ outcome = "err"
       /\ err = "not registered"
       /\ threads = EmptyMap
       /\ procs = 0
       /\ apps = apps0

UnregisteredIsRejectedWitness ==
    /\ args.cmd = "snapshot"
    /\ pc = "drop"
    /\ args.name \notin DOMAIN apps0
    /\ apps0 # EmptyMap
    /\ err = "not registered"

HasTabOrNewline(s) == \E i \in 1..Len(s) : s[i] \in {TAB, NL}

NoTabOrNewline(registry) ==
    \A n \in DOMAIN registry :
        /\ ~HasTabOrNewline(n)
        /\ ~HasTabOrNewline(registry[n].snapshot_value)
        /\ ~HasTabOrNewline(registry[n].latest_value)
        /\ ~HasTabOrNewline(registry[n].script_path)

\* C10: a registry without tabs and newlines that was saved is the registry
\* the next load installs
RoundTrip ==
    (saved.valid /\ NoTabOrNewline(saved.apps) /\ pc \in {"dispatch", "drop"}
        /\ err # "data file io")
    => /\ err # PARSE_ERROR
       /\ apps0 = saved.apps

\* the positions where a line of data ends: each newline, and the position
\* after the last character when no newline follows it
LineEnds(data) ==
    {k \in 1..Len(data) : data[k] = NL}
    \cup (IF data # <<>> /\ data[Len(data)] # NL THEN {Len(data) + 1} ELSE {})

\* the position where the line that ends at e starts
LineStart(data, e) ==
    IF \E k \in 1..(e - 1) : data[k] = NL
    THEN 1 + CHOOSE k \in 1..(e - 1) :
                 data[k] = NL /\ \A j \in (k + 1)..(e - 1) : data[j] # NL
    ELSE 1

\* the number of fields in data[i..j]: the positions where a field starts
FieldCount(data, i, j) ==
    Cardinality({k \in i..j : /\ ~IsWhitespace(data[k])
                              /\ (k = i \/ IsWhitespace(data[k - 1]))})

\* some line of data has fewer than four fields
HasShortLine(data) ==
    \E e \in LineEnds(data) : FieldCount(data, LineStart(data, e), e - 1) < 4

\* C11: a data file with a line of fewer than four fields fails the load
\* with the parse error and the registry stays empty, also when well-formed
\* lines precede the bad one
MalformedLoadInstallsNothing ==
    (pc \in {"dispatch", "drop", "exit"} /\ file0.exists
        /\ err # "data file io"
        /\ HasShortLine(file0.data))
    => /\ pc # "dispatch"
       /\ outcome = "err"
       /\ err = PARSE_ERROR
       /\ apps = EmptyMap

MalformedLoadInstallsNothingWitness ==
    /\ pc = "drop"
    /\ err = PARSE_ERROR
    /\ file0 = MalformedFile
    /\ Len(SplitWhitespace(Lines(file0.data)[1])) >= 4

\* C12: a full refresh keeps the entries, every snapshot value and every
\* script path of the loaded registry; within a run a loaded entry's
\* snapshot value changes only under snapshot, or under insert of its name
RefreshChangesOnlyLatest ==
    /\ args.cmd = "refresh"
       => /\ DOMAIN apps = DOMAIN apps0
          /\ \A n \in DOMAIN apps0 :
                /\ apps[n].snapshot_value = apps0[n].snapshot_value
                /\ apps[n].script_path = apps0[n].script_path
    /\ \A n \in DOMAIN apps0 :
          (n \notin DOMAIN apps \/ apps[n].snapshot_value # apps0[n].snapshot_value)
          => args.cmd \in {"snapshot", "insert"} /\ args.name = n

RefreshChangesOnlyLatestWitness ==
    /\ args.cmd = "refresh"
    /\ pc = "print"
    /\ Cardinality(DOMAIN apps) = 2
    /\ \A n \in DOMAIN apps : apps[n].latest_value # apps0[n].latest_value
    /\ \E n \in DOMAIN apps : apps[n].snapshot_value # apps[n].latest_value

\* a value that is NONE or a non-empty string without whitespace at its ends
Defined(s) ==
    \/ s = NONE
    \/ /\ s # <<>>
       /\ ~IsWhitespace(s[1])
       /\ ~IsWhitespace(s[Len(s)])

\* C13: in every state of the registry each latest value and each snapshot
\* value is NONE or a non-empty string without leading or trailing whitespace
ValuesAreDefined ==
    \A n \in DOMAIN apps :
        /\ Defined(apps[n].latest_value)
        /\ Defined(apps[n].snapshot_value)

ValuesAreDefinedWitness ==
    /\ pc = "drop"
    /\ args.cmd = "refresh"
    /\ runs = 2
    /\ \E n \in DOMAIN apps :
          /\ apps[n].latest_value = <<"2", ".", "0">>
          /\ apps[n].snapshot_value = NONE
    /\ \E n \in DOMAIN apps : apps[n].snapshot_value = <<"1">>

Pair(app) == <<app.snapshot_value, app.latest_value>>

\* C14: a snapshot of a name that follows a snapshot of the same name, with
\* the checker doing the same both times, leaves the pair of values the first
\* one left, and every other entry as the first one left it
SnapshotIdempotent ==
    (args.cmd = "snapshot" /\ pc = "drop" /\ err \notin LoadErrors
        /\ prev.snapshot /\ prev.name = args.name
        /\ args.name \in DOMAIN obs /\ obs[args.name] = prev.o)
    => /\ DOMAIN apps = DOMAIN saved.apps
       /\ Pair(apps[args.name]) = Pair(saved.apps[args.name])
       /\ \A n \in DOMAIN apps : n # args.name => apps[n] = saved.apps[n]

SnapshotIdempotentWitness ==
    /\ args.cmd = "snapshot"
    /\ pc = "drop"
    /\ outcome = "ok"
    /\ prev.snapshot
    /\ prev.name = args.name
    /\ obs = (args.name :> prev.o)
    /\ apps[args.name].latest_value = <<"2", ".", "0">>
    /\ Cardinality(DOMAIN apps) = 2

\* the names of the handles launched so far, in the order of their launch
Launched == [i \in 1..Len(new_values) |-> new_values[i].n]

\* C15: a full refresh launches one worker for each registered app, none
\* twice and none skipped, and joins no handle before all are launched
OneWorkerPerApp ==
    /\ [](args.cmd = "refresh" =>
            /\ pc \in {"update_spawn", "update_join"}
               => /\ Launched \o names \in Orders(DOMAIN apps)
                  /\ DOMAIN threads = {Launched[i] : i \in 1..Len(Launched)}
            /\ pc \in {"update_write", "print"} \/ (CommandDone /\ pc = "drop")
               => DOMAIN threads = DOMAIN apps)
    /\ [][(\E i \in 1..Len(new_values) :
               /\ ~new_values[i].joined
               /\ i <= Len(new_values')
               /\ new_values'[i].joined)
           => names = <<>> /\ Len(new_values) = Cardinality(DOMAIN apps)]_vars

OneWorkerPerAppWitness ==
    /\ args.cmd = "refresh"
    /\ pc = "update_join"
    /\ Cardinality(DOMAIN apps) = 2
    /\ procs = 2
    /\ \A n \in DOMAIN apps : n \in DOMAIN threads /\ threads[n].state = "waiting"

\* C16: a full refresh that returns an error has changed no latest value
RefreshErrorChangesNothing ==
    (args.cmd = "refresh" /\ CommandDone /\ outcome = "err")
    => apps = apps0

\* C17: after a load that failed with the parse error the run ends with the
\* data file holding what it held when the run started
ParseErrorKeepsFile ==
    (pc = "exit" /\ err = PARSE_ERROR)
    => /\ threads = EmptyMap
       /\ file = file0

\* C18: get runs the checker of a registered name and leaves the registry as
\* loaded, so a complete save at exit writes the loaded registry
GetLeavesRegistry ==
    args.cmd = "get" =>
       /\ pc # "load" => apps = apps0
       /\ (CommandDone /\ args.name \in DOMAIN apps0) => DOMAIN obs = {args.name}
       /\ (pc = "exit" /\ ~save_failed /\ err \notin LoadErrors)
          => saved = [valid |-> TRUE, apps |-> apps0]

GetLeavesRegistryWitness ==
    /\ args.cmd = "get"
    /\ pc = "exit"
    /\ outcome = "ok"
    /\ ~save_failed
    /\ Observed(obs[args.name]) = <<"1", SP, "b">>
    /\ apps0[args.name].latest_value = <<"2", ".", "0">>

\* C19: after a refresh or a snapshot that succeeded, an app whose checker
\* exited zero with output that is not empty after the trim holds a latest
\* value other than NONE
SentinelMeansFailure ==
    (args.cmd \in {"refresh", "snapshot"} /\ CommandDone /\ outcome = "ok")
    => \A n \in DOMAIN obs :
          (obs[n].spawned /\ obs[n].success /\ IsUtf8(obs[n].stdout)
              /\ Trim(obs[n].stdout) # <<>>)
          => apps[n].latest_value # NONE

\* C20: when every checker ends, a full refresh that has started leads to
\* the end of the run, with every launched worker ended and the save made
RefreshTerminates ==
    (args.cmd = "refresh" /\ pc = "update_spawn")
    ~> (/\ args.cmd = "refresh"
        /\ pc = "exit"
        /\ saves = 1
        /\ DOMAIN threads = DOMAIN apps
        /\ \A n \in DOMAIN threads : threads[n].state = "done")

RefreshTerminatesWitness ==
    /\ args.cmd = "refresh"
    /\ pc = "exit"
    /\ saves = 1
    /\ Cardinality(DOMAIN threads) = 2
    /\ \A n \in DOMAIN threads : threads[n].state = "done"
    /\ \E n \in DOMAIN threads : ~threads[n].res.ok

====
